---- MODULE Spec2Model ----
(***************************************************************************)
(* Model of the BacktestingDashboard view component                        *)
(* (frontend/src/components/BacktestingDashboard.tsx, lines 504-691).       *)
(*                                                                         *)
(* The React state of the component, the polling effect with its interval  *)
(* timer, and every asynchronous handler (fetchStatus, fetchPortfolio,     *)
(* fetchResults, fetchTradeHistory, startBacktest, resetBacktest) are      *)
(* modelled.  A handler that awaits a network request is split at the      *)
(* await: one action issues the request, one action runs the code after    *)
(* the await for a response chosen from Responses.  Every state update is  *)
(* followed, in the same action, by the re-render and the polling effect.  *)
(***************************************************************************)
EXTENDS Integers, Sequences, FiniteSets, TLC

VARIABLES
    status,         \* useState<BacktestStatus | null>           (line 506)
    portfolio,      \* useState<PortfolioSummary | null>         (line 505)
    results,        \* useState<BacktestResults | null>          (line 507)
    tradeHistory,   \* useState<TradeRecord[]>                   (line 508)
    isLoading,      \* useState(false)                           (line 509)
    depStatus,      \* status?.status the effect last ran with   (line 529)
    interval,       \* the installed effect's local `interval` is non-null (line 513)
    timers,         \* number of live setInterval timers
    mounted,        \* the component is mounted
    statusReqs,     \* poll ticks awaiting fetchStatus, in issue order (line 517)
    portfolioReqs,  \* poll ticks awaiting fetchPortfolio, in issue order (line 518)
    resultsReqs,    \* fetchResults calls awaiting their response (line 522)
    tradesReqs,     \* fetchTradeHistory calls awaiting their response (line 523)
    resetReqs,      \* resetBacktest calls awaiting the DELETE    (line 619)
    postReqs,       \* startBacktest calls awaiting the POST     (line 586)
    startStatusReqs,\* startBacktest calls awaiting fetchStatus  (line 604)
    alertMsg,       \* text of the blocking alert() on screen, or NoAlert
    unhandled,      \* an exception escaped a handler
    last,           \* the handler step taken last: operation, response, staleness
    rendered        \* what one evaluation of the JSX shows (lines 676-1063), or
                    \* NotRendered; the handlers' specification does not follow it
\* An entry of statusReqs / portfolioReqs is TRUE once a request issued after
\* it has settled: its response, when it arrives, is an overtaken one.

vars == <<status, portfolio, results, tradeHistory, isLoading, depStatus,
          interval, timers, mounted, statusReqs, portfolioReqs, resultsReqs,
          tradesReqs, resetReqs, postReqs, startStatusReqs, alertMsg,
          unhandled, last, rendered>>

(***************************************************************************)
(* Bound on the number of requests awaiting their response at one time.    *)
(***************************************************************************)
MaxInFlight == 3

InFlight ==
    Len(statusReqs) + Len(portfolioReqs) + resultsReqs + tradesReqs
    + resetReqs + postReqs + startStatusReqs

(***************************************************************************)
(* Values.                                                                 *)
(***************************************************************************)
NULL == [null |-> TRUE]
NoBody == [nobody |-> TRUE]
NoAlert == "none"
Undefined == "undefined"

\* the five states the backend reports
StatusValues == {"idle", "initializing", "running", "completed", "error"}
StatusBodies == [status : StatusValues]
\* error bodies {detail}: of the POST, and of a GET
Details == {"already running", "no data"}
StartErrorBodies == [detail : Details]
ErrorBodies == {[detail |-> "not available"]}
PortfolioBodies == {[total_value |-> 100], [total_value |-> 110]}
ResultsBodies == {[final_value |-> 110]}
Trade1 == [symbol |-> "005930", action |-> "BUY"]
Trade2 == [symbol |-> "005930", action |-> "SELL"]
TradeBodies == {<<>>, <<Trade1, Trade2>>}

(***************************************************************************)
(* What a request can come back with: kind "ok" / "nonok" is an HTTP       *)
(* response with res.ok true / false and a JSON body; "okbad" / "nonokbad" *)
(* is a response whose body res.json() cannot parse; "reject" is fetch()   *)
(* itself rejecting.  For each endpoint the responses are told apart by    *)
(* what its handler reads of them: fetchStatus parses every body,          *)
(* the other GET handlers parse the body of an OK response only,           *)
(* startBacktest that of a non-OK response only, resetBacktest none.       *)
(***************************************************************************)
Response(k, b) == [kind |-> k, body |-> b]
Responses(okBodies, errorBodies, badKinds) ==
    {Response("ok", b) : b \in okBodies}
    \cup {Response("nonok", b) : b \in errorBodies}
    \cup {Response(k, NoBody) : k \in badKinds \cup {"reject"}}

StatusResponses == Responses(StatusBodies, ErrorBodies, {"nonokbad"})
PortfolioResponses == Responses(PortfolioBodies, ErrorBodies, {"okbad"})
ResultsResponses == Responses(ResultsBodies, ErrorBodies, {"okbad"})
TradesResponses == Responses(TradeBodies, ErrorBodies, {"okbad"})
StartResponses == Responses({NoBody}, StartErrorBodies, {"nonokbad"})
ResetResponses == Responses({NoBody}, ErrorBodies, {})

Rejected(r) == r.kind = "reject"
ResOk(r) == r.kind \in {"ok", "okbad"}
JsonThrows(r) == r.kind \in {"okbad", "nonokbad"}

\* status?.status
StatusOf(st) ==
    IF st = NULL THEN Undefined
    ELSE IF "status" \in DOMAIN st THEN st.status ELSE Undefined

(***************************************************************************)
(* The bodies of the four GET handlers: the value the state has after the  *)
(* handler ran on response r, given the value cur it had before.           *)
(***************************************************************************)
fetchStatus(cur, r) ==
    IF Rejected(r) THEN cur
    ELSE IF JsonThrows(r) THEN cur
    ELSE r.body

fetchPortfolio_NoOkCheck(cur, r) ==
    IF Rejected(r) THEN cur
    ELSE IF JsonThrows(r) THEN cur
    ELSE r.body

fetchPortfolio(cur, r) ==
    IF Rejected(r) THEN cur
    ELSE IF ResOk(r) THEN (IF JsonThrows(r) THEN cur ELSE r.body)
    ELSE cur

fetchResults(cur, r) ==
    IF Rejected(r) THEN cur
    ELSE IF ResOk(r) THEN (IF JsonThrows(r) THEN cur ELSE r.body)
    ELSE cur

fetchTradeHistory_EmptyOnFailure(cur, r) ==
    IF Rejected(r) THEN cur
    ELSE IF ResOk(r) THEN (IF JsonThrows(r) THEN cur ELSE r.body)
    ELSE <<>>

fetchTradeHistory(cur, r) ==
    IF Rejected(r) THEN cur
    ELSE IF ResOk(r) THEN (IF JsonThrows(r) THEN cur ELSE r.body)
    ELSE cur

\* an exception is raised inside the handler op while it processes r
Throws(op, r) ==
    CASE op = "fetchStatus" -> Rejected(r) \/ JsonThrows(r)
      [] op \in {"fetchPortfolio", "fetchResults", "fetchTradeHistory"} ->
             Rejected(r) \/ (ResOk(r) /\ JsonThrows(r))
      [] op = "startBacktest" -> Rejected(r) \/ (~ResOk(r) /\ JsonThrows(r))
      [] op = "resetBacktest" -> Rejected(r)
      [] OTHER -> FALSE

HasTryCatch_NotInReset(op) ==
    op \in {"fetchStatus", "fetchPortfolio", "fetchResults",
            "fetchTradeHistory", "startBacktest"}

\* the handlers whose awaits are inside a try block with a catch clause
HasTryCatch(op) ==
    op \in {"fetchStatus", "fetchPortfolio", "fetchResults",
            "fetchTradeHistory", "startBacktest", "resetBacktest"}

Escapes(op, r) == Throws(op, r) /\ ~HasTryCatch(op)

(***************************************************************************)
(* The polling effect.                                                     *)
(***************************************************************************)
EffectBranch_NoResultsGuard(s, res) ==
    IF s = "running" \/ s = "initializing" THEN "poll"
    ELSE IF s = "completed" THEN "fetch"
    ELSE "none"

\* the branch the effect body takes for status?.status = s and results = res
EffectBranch(s, res) ==
    IF s = "running" \/ s = "initializing" THEN "poll"
    ELSE IF s = "completed" /\ res = NULL THEN "fetch"
    ELSE "none"

Cleanup_NoClear(hasInterval, n) == n

\* the effect's cleanup: timers alive after it ran
Cleanup(hasInterval, n) == IF hasInterval THEN n - 1 ELSE n

DepsChanged_EveryRender(old, new) == TRUE

\* the dependency array [status?.status]
DepsChanged(old, new) == old # new

useEffect_HandleLost(st, res, rq, tq) ==
    LET s == StatusOf(st)
        branch == EffectBranch(s, res)
    IN  IF DepsChanged(depStatus, s)
        THEN /\ depStatus' = s
             /\ timers' = Cleanup(interval, timers) + (IF branch = "poll" THEN 1 ELSE 0)
             /\ interval' = FALSE
             /\ resultsReqs' = (IF branch = "fetch" THEN rq + 1 ELSE rq)
             /\ tradesReqs' = (IF branch = "fetch" THEN tq + 1 ELSE tq)
        ELSE /\ UNCHANGED <<depStatus, timers, interval>>
             /\ resultsReqs' = rq
             /\ tradesReqs' = tq

\* Re-render with status st and results res; rq and tq are the numbers of
\* fetchResults / fetchTradeHistory calls in flight before the effect runs.
useEffect(st, res, rq, tq) ==
    LET s == StatusOf(st)
        branch == EffectBranch(s, res)
    IN  IF DepsChanged(depStatus, s)
        THEN /\ depStatus' = s
             /\ timers' = Cleanup(interval, timers) + (IF branch = "poll" THEN 1 ELSE 0)
             /\ interval' = (branch = "poll")
             /\ resultsReqs' = (IF branch = "fetch" THEN rq + 1 ELSE rq)
             /\ tradesReqs' = (IF branch = "fetch" THEN tq + 1 ELSE tq)
        ELSE /\ UNCHANGED <<depStatus, timers, interval>>
             /\ resultsReqs' = rq
             /\ tradesReqs' = tq

\* the body of a response of the trades endpoint, a list, as a record
Listed(r) == IF r.kind = "ok" THEN [list |-> r.body] ELSE r.body

Step(op, r, stale) == [op |-> op, kind |-> r.kind, body |-> r.body, stale |-> stale]
NoResponse == Response("none", NoBody)

\* no handler runs while alert() blocks the event loop or after unmount
Running == mounted /\ alertMsg = NoAlert

Settle_CancelOlder(q, i) ==
    [j \in 1..(Len(q) - i) |-> q[j + i]]

\* request i of q settles: it leaves q, and the requests issued before it
\* are marked as overtaken by a later one
Settle(q, i) ==
    [j \in 1..(Len(q) - 1) |-> IF j < i THEN TRUE ELSE q[j + 1]]

(***************************************************************************)
(* Rendering (lines 631-660 and 676-1063).  A JavaScript string is a       *)
(* sequence of one-character strings; the Korean words of the source are   *)
(* single elements written in ASCII ("won" is the currency suffix of       *)
(* lines 1030-1054, "maesu" / "maedo" the action badges of line 1023).     *)
(* An optional field is <<>> when null or undefined and <<v>> otherwise;   *)
(* a number with two decimals is the integer of its hundredths.            *)
(***************************************************************************)
NotRendered == [rendered |-> FALSE]
None == <<>>
Some(v) == <<v>>

Min(a, b) == IF a < b THEN a ELSE b
Abs(n) == IF n < 0 THEN -n ELSE n

\* s.slice(from, to) for 0 <= from <= to
Slice(s, from, to) == SubSeq(s, from + 1, Min(to, Len(s)))

DigitChar(d) == <<"0", "1", "2", "3", "4", "5", "6", "7", "8", "9">>[d + 1]

RECURSIVE Digits(_)
Digits(n) == IF n < 10 THEN <<DigitChar(n)>>
             ELSE Digits(n \div 10) \o <<DigitChar(n % 10)>>

\* String(n) of an integer n                                     (line 984)
String(n) == IF n < 0 THEN <<"-">> \o Digits(-n) ELSE Digits(n)

RECURSIVE Grouped(_)
Grouped(ds) == IF Len(ds) <= 3 THEN ds
               ELSE Grouped(SubSeq(ds, 1, Len(ds) - 3)) \o <<",">>
                    \o SubSeq(ds, Len(ds) - 2, Len(ds))

\* n.toLocaleString('ko-KR') of an integer n                     (line 633)
toLocaleString(n) ==
    (IF n < 0 THEN <<"-">> ELSE <<>>) \o Grouped(Digits(Abs(n)))

\* h.toFixed(2) of the number of hundredths h               (lines 638, 1058)
toFixed2(h) ==
    (IF h < 0 THEN <<"-">> ELSE <<>>) \o Digits(Abs(h) \div 100) \o <<".">>
    \o <<DigitChar((Abs(h) % 100) \div 10), DigitChar(Abs(h) % 10)>>

\* formatNumber of an optional integer                      (lines 631-634)
formatNumber(num) ==
    IF num = None THEN <<"-">> ELSE toLocaleString(num[1])

\* an optional number is truthy: neither null, undefined nor 0
Truthy(num) == num # None /\ num[1] # 0

getStatusColor_Swapped(s) ==
    CASE s = "running" -> "#2196F3"
      [] s = "completed" -> "#4CAF50"
      [] s = "error" -> "#F44336"
      [] s = "initializing" -> "#FF9800"
      [] OTHER -> "#9E9E9E"

\* getStatusColor                                           (lines 641-649)
getStatusColor(s) ==
    CASE s = "running" -> "#4CAF50"
      [] s = "completed" -> "#2196F3"
      [] s = "error" -> "#F44336"
      [] s = "initializing" -> "#FF9800"
      [] OTHER -> "#9E9E9E"

\* getStatusText; the five Korean labels in ASCII           (lines 651-660)
getStatusText(s) ==
    CASE s = "idle" -> "daegi jung"
      [] s = "initializing" -> "chogihwa jung"
      [] s = "running" -> "silhaeng jung"
      [] s = "completed" -> "wanryo"
      [] s = "error" -> "oryu"
      [] OTHER -> s

\* the status badge                                         (lines 708-718)
StatusBadge(st) ==
    IF st = NULL THEN None
    ELSE Some([color |-> getStatusColor(StatusOf(st)),
               text |-> getStatusText(StatusOf(st))])

Chars9(a, b, c, d, e, f, g, h, i) == <<a, b, c, d, e, f, g, h, i>>

\* trade.time_slot ? ... : ''  -- null, undefined and '' are falsy (line 990)
HasTimeSlot(trade) == trade.time_slot # None /\ trade.time_slot[1] # <<>>

formattedDate_AnyLength(trade) ==
    LET dateStr == String(trade.date)
    IN  Slice(dateStr, 0, 4) \o <<"-">> \o Slice(dateStr, 4, 6)
        \o <<"-">> \o Slice(dateStr, 6, 8)

\* formattedDate                                            (lines 984-987)
formattedDate(trade) ==
    LET dateStr == String(trade.date)
    IN  IF Len(dateStr) = 8
        THEN Slice(dateStr, 0, 4) \o <<"-">> \o Slice(dateStr, 4, 6)
             \o <<"-">> \o Slice(dateStr, 6, 8)
        ELSE dateStr

\* formattedTime                                            (lines 990-992)
formattedTime(trade) ==
    IF HasTimeSlot(trade)
    THEN LET ts == trade.time_slot[1]
         IN  Slice(ts, 0, 2) \o <<":">> \o Slice(ts, 2, 4) \o <<"-">>
             \o Slice(ts, 5, 7) \o <<":">> \o Slice(ts, 7, 9)
    ELSE <<>>

\* isBuy                                                         (line 994)
isBuy(trade) == trade.action = "BUY"

\* the percentage span of the profit/loss cell            (lines 1056-1059)
PercentSpan(pct) ==
    <<"(">> \o (IF Truthy(pct) /\ pct[1] >= 0 THEN <<"+">> ELSE <<>>)
    \o (IF pct = None THEN <<>> ELSE toFixed2(pct[1])) \o <<"%", ")">>

ProfitLossCell_NoBuyCheck(trade) ==
    IF trade.profit_loss # None
    THEN << (IF trade.profit_loss[1] >= 0 THEN <<"+">> ELSE <<>>)
            \o formatNumber(trade.profit_loss) \o <<"won">>,
            PercentSpan(trade.profit_loss_percent) >>
    ELSE << <<"-">> >>

\* the content of the profit/loss cell, one element per line of text
\*                                                        (lines 1051-1062)
ProfitLossCell(trade) ==
    IF isBuy(trade) THEN << <<"-">> >>
    ELSE IF trade.profit_loss # None
         THEN << (IF trade.profit_loss[1] >= 0 THEN <<"+">> ELSE <<>>)
                 \o formatNumber(trade.profit_loss) \o <<"won">>,
                 PercentSpan(trade.profit_loss_percent) >>
         ELSE << <<"-">> >>

\* one <tr> of the trade table                             (lines 984-1064)
TradeRow(trade) ==
    [date |-> formattedDate(trade),
     time |-> formattedTime(trade),
     symbol |-> trade.symbol,
     badge |-> IF isBuy(trade) THEN "maesu" ELSE "maedo",
     actionColor |-> IF isBuy(trade) THEN "#4CAF50" ELSE "#F44336",
     actionBg |-> IF isBuy(trade) THEN "#E8F5E9" ELSE "#FFEBEE",
     quantity |-> formatNumber(Some(trade.quantity)),
     buyPrice |-> IF isBuy(trade)
                  THEN formatNumber(Some(trade.price)) \o <<"won">>
                  ELSE IF Truthy(trade.buy_price)
                       THEN formatNumber(trade.buy_price) \o <<"won">>
                       ELSE <<"-">>,
     sellPrice |-> IF isBuy(trade) THEN <<"-">>
                   ELSE formatNumber(Some(trade.price)) \o <<"won">>,
     total |-> (IF isBuy(trade) THEN <<"-">> ELSE <<"+">>)
               \o formatNumber(Some(trade.total)) \o <<"won">>,
     pnlColor |-> IF Truthy(trade.profit_loss) /\ trade.profit_loss[1] >= 0
                  THEN "#4CAF50" ELSE "#F44336",
     pnl |-> ProfitLossCell(trade)]

Reverse(list) == [i \in 1..Len(list) |-> list[Len(list) + 1 - i]]

DisplayOrder_NoSlice(list) == [shown |-> Reverse(list), stored |-> Reverse(list)]

\* tradeHistory.slice().reverse(): reverse() reverses in place the array it
\* is called on, which is the copy slice() made                  (line 983)
DisplayOrder(list) == [shown |-> Reverse(list), stored |-> list]

\* the rows of the trade table, none when the list is empty
\*                                                         (lines 960, 983)
TradeTable(list) ==
    IF Len(list) > 0
    THEN [i \in 1..Len(list) |-> TradeRow(DisplayOrder(list).shown[i])]
    ELSE <<>>

\* what the component shows of status and tradeHistory
Render(st, list) == [badge |-> StatusBadge(st), rows |-> TradeTable(list)]

----
Init ==
    /\ status = NULL
    /\ portfolio = NULL
    /\ results = NULL
    /\ tradeHistory = <<>>
    /\ isLoading = FALSE
    /\ depStatus = Undefined
    /\ interval = FALSE
    /\ timers = 0
    /\ mounted = TRUE
    /\ statusReqs = <<>>
    /\ portfolioReqs = <<>>
    /\ resultsReqs = 0
    /\ tradesReqs = 0
    /\ resetReqs = 0
    /\ postReqs = 0
    /\ startStatusReqs = 0
    /\ alertMsg = NoAlert
    /\ unhandled = FALSE
    /\ last = Step("mount", NoResponse, FALSE)
    /\ rendered = NotRendered

\* the interval callback starts: fetchStatus() is called          (line 517)
Tick ==
    /\ Running
    /\ timers > 0
    /\ InFlight < MaxInFlight
    /\ statusReqs' = Append(statusReqs, FALSE)
    /\ last' = Step("tick", NoResponse, FALSE)
    /\ UNCHANGED <<rendered, status, portfolio, results, tradeHistory, isLoading,
                   depStatus, interval, timers, mounted, portfolioReqs,
                   resultsReqs, tradesReqs, resetReqs, postReqs,
                   startStatusReqs, alertMsg, unhandled>>

TickAfterStatus_StopOnFailure(q, r) ==
    IF Throws("fetchStatus", r) THEN q ELSE Append(q, FALSE)

\* the portfolio requests in flight once `await fetchStatus()` has returned
\* in the interval callback, q being those before: fetchStatus caught what
\* its request threw, so the callback goes on to fetchPortfolio()
\*                                                         (lines 516-519)
TickAfterStatus(q, r) == Append(q, FALSE)

\* fetchStatus of a tick settles, then the tick calls fetchPortfolio()
\*                                                         (lines 517-518, 531-539)
FetchStatusSettle(i, r) ==
    /\ Running
    /\ i \in 1..Len(statusReqs)
    /\ status' = fetchStatus(status, r)
    /\ statusReqs' = Settle(statusReqs, i)
    /\ portfolioReqs' = TickAfterStatus(portfolioReqs, r)
    /\ useEffect(status', results, resultsReqs, tradesReqs)
    /\ unhandled' = (unhandled \/ Escapes("fetchStatus", r))
    /\ last' = Step("fetchStatus", r, statusReqs[i])
    /\ UNCHANGED <<rendered, portfolio, results, tradeHistory, isLoading, mounted,
                   resetReqs, postReqs, startStatusReqs, alertMsg>>
    /\ InFlight' <= MaxInFlight

\* fetchPortfolio of a tick settles; the tick is over      (lines 518, 541-551)
FetchPortfolioSettle(i, r) ==
    /\ Running
    /\ i \in 1..Len(portfolioReqs)
    /\ portfolio' = fetchPortfolio(portfolio, r)
    /\ portfolioReqs' = Settle(portfolioReqs, i)
    /\ useEffect(status, results, resultsReqs, tradesReqs)
    /\ unhandled' = (unhandled \/ Escapes("fetchPortfolio", r))
    /\ last' = Step("fetchPortfolio", r, portfolioReqs[i])
    /\ UNCHANGED <<rendered, status, results, tradeHistory, isLoading, mounted,
                   statusReqs, resetReqs, postReqs, startStatusReqs, alertMsg>>

\* a fetchResults call settles                                  (lines 553-566)
FetchResultsSettle(r) ==
    /\ Running
    /\ resultsReqs > 0
    /\ results' = fetchResults(results, r)
    /\ useEffect(status, results', resultsReqs - 1, tradesReqs)
    /\ unhandled' = (unhandled \/ Escapes("fetchResults", r))
    /\ last' = Step("fetchResults", r, FALSE)
    /\ UNCHANGED <<rendered, status, portfolio, tradeHistory, isLoading, mounted,
                   statusReqs, portfolioReqs, resetReqs, postReqs, startStatusReqs, alertMsg>>

\* a fetchTradeHistory call settles                             (lines 568-578)
FetchTradeHistorySettle(r) ==
    /\ Running
    /\ tradesReqs > 0
    /\ tradeHistory' = fetchTradeHistory(tradeHistory, r)
    /\ useEffect(status, results, resultsReqs, tradesReqs - 1)
    /\ unhandled' = (unhandled \/ Escapes("fetchTradeHistory", r))
    /\ last' = Step("fetchTradeHistory", Response(r.kind, Listed(r)), FALSE)
    /\ UNCHANGED <<rendered, status, portfolio, results, isLoading, mounted,
                   statusReqs, portfolioReqs, resetReqs, postReqs, startStatusReqs, alertMsg>>

(***************************************************************************)
(* startBacktest                                            (lines 580-615) *)
(***************************************************************************)
StartDisabled_StatusOnly(loading, st) ==
    StatusOf(st) = "running" \/ StatusOf(st) = "initializing"

\* the `disabled` attribute of the start button                   (line 678)
StartDisabled(loading, st) ==
    loading \/ StatusOf(st) = "running" \/ StatusOf(st) = "initializing"

AfterPost_StatusAlways(r) ==
    IF Rejected(r) THEN "generic" ELSE "fetchStatus"

\* what startBacktest does once the POST has settled with r: "fetchStatus"
\* calls fetchStatus, "detail" alerts the backend's message, "generic"
\* alerts from the catch clause                              (lines 603-611)
AfterPost(r) ==
    IF Rejected(r) THEN "generic"
    ELSE IF ResOk(r) THEN "fetchStatus"
    ELSE IF JsonThrows(r) THEN "generic"
    ELSE "detail"

\* the two alert texts, the Korean literals of lines 607 and 611 written
\* in ASCII: the fixed prefix followed by error.detail, and the fixed text
DetailAlert(detail) == "backtesting start failed: " \o detail
GenericAlert == "an error occurred while starting the backtest"

AlertText_AlwaysGeneric(r) ==
    CASE AfterPost(r) = "detail" -> GenericAlert
      [] AfterPost(r) = "generic" -> GenericAlert
      [] OTHER -> NoAlert

\* the text alert() shows after the POST settled with r
AlertText(r) ==
    CASE AfterPost(r) = "detail" -> DetailAlert(r.body.detail)
      [] AfterPost(r) = "generic" -> GenericAlert
      [] OTHER -> NoAlert

LoadingAfterStart_OnlyOnSuccess(path) == path # "fetchStatus"

\* isLoading once startBacktest has run to its end along path: the finally
\* clause                                                   (lines 612-614)
LoadingAfterStart(path) == FALSE

\* click on the start button, up to the await of the POST   (lines 580-586)
StartBacktest ==
    /\ Running
    /\ ~StartDisabled(isLoading, status)
    /\ InFlight < MaxInFlight
    /\ isLoading' = TRUE
    /\ results' = NULL
    /\ portfolio' = NULL
    /\ postReqs' = postReqs + 1
    /\ useEffect(status, results', resultsReqs, tradesReqs)
    /\ last' = Step("startBacktest", NoResponse, FALSE)
    /\ UNCHANGED <<rendered, status, tradeHistory, mounted, statusReqs, portfolioReqs,
                   resetReqs, startStatusReqs, alertMsg, unhandled>>

\* the POST settles: fetchStatus is called or an alert blocks (lines 603-611)
StartPostSettle(r) ==
    /\ Running
    /\ postReqs > 0
    /\ postReqs' = postReqs - 1
    /\ startStatusReqs' =
           (IF AfterPost(r) = "fetchStatus" THEN startStatusReqs + 1
            ELSE startStatusReqs)
    /\ alertMsg' = AlertText(r)
    /\ unhandled' = (unhandled \/ Escapes("startBacktest", r))
    /\ last' = Step("startPost", r, FALSE)
    /\ UNCHANGED <<rendered, status, portfolio, results, tradeHistory, isLoading,
                   depStatus, interval, timers, mounted, statusReqs,
                   portfolioReqs, resultsReqs, tradesReqs, resetReqs>>

\* the awaited fetchStatus settles, then the finally clause (lines 604, 612-614)
StartStatusSettle(r) ==
    /\ Running
    /\ startStatusReqs > 0
    /\ startStatusReqs' = startStatusReqs - 1
    /\ status' = fetchStatus(status, r)
    /\ isLoading' = LoadingAfterStart("fetchStatus")
    /\ useEffect(status', results, resultsReqs, tradesReqs)
    /\ unhandled' = (unhandled \/ Escapes("fetchStatus", r))
    /\ last' = Step("startStatus", r, FALSE)
    /\ UNCHANGED <<rendered, portfolio, results, tradeHistory, mounted, statusReqs,
                   portfolioReqs, resetReqs, postReqs, alertMsg>>
    /\ InFlight' <= MaxInFlight

\* the user closes the alert, then the finally clause       (lines 607-614)
DismissAlert ==
    /\ mounted
    /\ alertMsg # NoAlert
    /\ alertMsg' = NoAlert
    /\ isLoading' = LoadingAfterStart(IF alertMsg = GenericAlert THEN "generic" ELSE "detail")
    /\ last' = Step("dismissAlert", NoResponse, FALSE)
    /\ UNCHANGED <<rendered, status, portfolio, results, tradeHistory, depStatus,
                   interval, timers, mounted, statusReqs, portfolioReqs,
                   resultsReqs, tradesReqs, resetReqs, postReqs,
                   startStatusReqs, unhandled>>

(***************************************************************************)
(* resetBacktest                                            (lines 617-629) *)
(***************************************************************************)
\* a piece of state after the DELETE settled with r: cleared is its empty
\* value, cur the value it had
resetBacktest(cur, cleared, r) ==
    IF Rejected(r) THEN cur ELSE cleared

\* click on the reset button, up to the await of the DELETE (lines 617-621)
ResetBacktest ==
    /\ Running
    /\ InFlight < MaxInFlight
    /\ resetReqs' = resetReqs + 1
    /\ last' = Step("resetBacktest", NoResponse, FALSE)
    /\ UNCHANGED <<rendered, status, portfolio, results, tradeHistory, isLoading,
                   depStatus, interval, timers, mounted, statusReqs,
                   portfolioReqs, resultsReqs, tradesReqs, postReqs,
                   startStatusReqs, alertMsg, unhandled>>

\* the DELETE settles                                       (lines 622-628)
ResetSettle(r) ==
    /\ Running
    /\ resetReqs > 0
    /\ resetReqs' = resetReqs - 1
    /\ portfolio' = resetBacktest(portfolio, NULL, r)
    /\ status' = resetBacktest(status, NULL, r)
    /\ results' = resetBacktest(results, NULL, r)
    /\ tradeHistory' = resetBacktest(tradeHistory, <<>>, r)
    /\ useEffect(status', results', resultsReqs, tradesReqs)
    /\ unhandled' = (unhandled \/ Escapes("resetBacktest", r))
    /\ last' = Step("resetSettle", r, FALSE)
    /\ UNCHANGED <<rendered, isLoading, mounted, statusReqs, portfolioReqs, postReqs,
                   startStatusReqs, alertMsg>>
    /\ InFlight' <= MaxInFlight

\* the component unmounts: the effect's cleanup runs, and the component's
\* state and the continuations of its pending calls have no effect any more
\*                                                          (lines 526-528)
Unmount ==
    /\ Running
    /\ mounted' = FALSE
    /\ timers' = Cleanup(interval, timers)
    /\ interval' = FALSE
    /\ status' = NULL
    /\ portfolio' = NULL
    /\ results' = NULL
    /\ tradeHistory' = <<>>
    /\ isLoading' = FALSE
    /\ depStatus' = Undefined
    /\ statusReqs' = <<>>
    /\ portfolioReqs' = <<>>
    /\ resultsReqs' = 0
    /\ tradesReqs' = 0
    /\ resetReqs' = 0
    /\ postReqs' = 0
    /\ startStatusReqs' = 0
    /\ last' = Step("unmount", NoResponse, FALSE)
    /\ UNCHANGED <<rendered, alertMsg, unhandled>>

----
Next ==
    \/ Tick
    \/ \E i \in 1..MaxInFlight, r \in StatusResponses : FetchStatusSettle(i, r)
    \/ \E i \in 1..MaxInFlight, r \in PortfolioResponses : FetchPortfolioSettle(i, r)
    \/ \E r \in ResultsResponses : FetchResultsSettle(r)
    \/ \E r \in TradesResponses : FetchTradeHistorySettle(r)
    \/ StartBacktest
    \/ \E r \in StartResponses : StartPostSettle(r)
    \/ \E r \in StatusResponses : StartStatusSettle(r)
    \/ DismissAlert
    \/ ResetBacktest
    \/ \E r \in ResetResponses : ResetSettle(r)
    \/ Unmount

Spec == Init /\ [][Next]_vars

\* the step a pending startBacktest call is waiting for: its POST or its
\* status request settles, or the user closes its alert
StartProgress ==
    \/ \E r \in StartResponses : StartPostSettle(r)
    \/ \E r \in StatusResponses : StartStatusSettle(r)
    \/ DismissAlert

\* every request of startBacktest settles and every alert is closed
Fairness == WF_vars(StartProgress)

LiveSpec == Spec /\ Fairness

\* the steps that need no action of the user but the closing of an alert:
\* the timer fires and the requests in flight settle
ProgramStep ==
    \/ Tick
    \/ \E i \in 1..MaxInFlight, r \in StatusResponses : FetchStatusSettle(i, r)
    \/ \E i \in 1..MaxInFlight, r \in PortfolioResponses : FetchPortfolioSettle(i, r)
    \/ \E r \in ResultsResponses : FetchResultsSettle(r)
    \/ \E r \in TradesResponses : FetchTradeHistorySettle(r)
    \/ \E r \in ResetResponses : ResetSettle(r)
    \/ StartProgress

\* the event loop runs: no timer and no response waits for ever; the
\* clicks on start and reset and the unmounting may never happen
FairSpec == Spec /\ WF_vars(ProgramStep)

(***************************************************************************)
(* Rendering: one evaluation of the JSX on a state the handlers left.      *)
(* The status is null, one of the five the backend reports, one it does    *)
(* not report, or the error body a failed status request stored; the       *)
(* trade list is a single trade drawn from every combination of fields,    *)
(* or up to MaxTrades trades told apart by their symbol.                   *)
(***************************************************************************)
MaxTrades == 3

UnknownStatuses == {"paused", "stopped"}
RenderStatuses ==
    {NULL} \cup [status : StatusValues \cup UnknownStatuses] \cup ErrorBodies

RenderTrades ==
    [date : {20240104, 991231, 202401045},
     time_slot : {None, Some(<<>>),
                  Some(Chars9("0", "9", "0", "0", "_", "0", "9", "1", "0")),
                  Some(Chars9("1", "4", "3", "0", "_", "1", "5", "0", "0"))},
     symbol : {"005930"},
     action : {"BUY", "SELL"},
     quantity : {10},
     price : {1000},
     total : {10000},
     buy_price : {None, Some(0), Some(900)},
     profit_loss : {None, Some(-500), Some(0), Some(1234500)},
     profit_loss_percent : {None, Some(-500), Some(0), Some(1234)}]

ListTrade(sym, act) ==
    [date |-> 20240104, time_slot |-> None, symbol |-> sym, action |-> act,
     quantity |-> 10, price |-> 1000, total |-> 10000, buy_price |-> None,
     profit_loss |-> None, profit_loss_percent |-> None]
ListTrades ==
    {ListTrade("005930", "BUY"), ListTrade("000660", "BUY"),
     ListTrade("035420", "SELL")}

RenderLists ==
    {<<t>> : t \in RenderTrades}
    \cup UNION {[1..n -> ListTrades] : n \in 0..MaxTrades}

RenderInit ==
    /\ status \in RenderStatuses
    /\ portfolio = NULL
    /\ results = NULL
    /\ tradeHistory \in RenderLists
    /\ isLoading = FALSE
    /\ depStatus = StatusOf(status)
    /\ interval = (EffectBranch(StatusOf(status), results) = "poll")
    /\ timers = IF interval THEN 1 ELSE 0
    /\ mounted = TRUE
    /\ statusReqs = <<>>
    /\ portfolioReqs = <<>>
    /\ resultsReqs = 0
    /\ tradesReqs = 0
    /\ resetReqs = 0
    /\ postReqs = 0
    /\ startStatusReqs = 0
    /\ alertMsg = NoAlert
    /\ unhandled = FALSE
    /\ last = Step("mount", NoResponse, FALSE)
    /\ rendered = NotRendered

\* the component function returns its JSX                (lines 662-1130)
RenderDashboard ==
    /\ Running
    /\ rendered = NotRendered
    /\ rendered' = Render(status, tradeHistory)
    /\ tradeHistory' = DisplayOrder(tradeHistory).stored
    /\ last' = Step("render", NoResponse, FALSE)
    /\ UNCHANGED <<status, portfolio, results, isLoading, depStatus, interval,
                   timers, mounted, statusReqs, portfolioReqs, resultsReqs,
                   tradesReqs, resetReqs, postReqs, startStatusReqs, alertMsg,
                   unhandled>>

RenderNext == RenderDashboard

RenderSpec == RenderInit /\ [][RenderNext]_vars

----
(***************************************************************************)
(* Properties of the polling effect.                                       *)
(***************************************************************************)
Active == {"initializing", "running"}

\* C1: while the dashboard is mounted a polling timer exists if and only if
\* status.status is 'initializing' or 'running' (none for null, 'idle',
\* 'completed', 'error' or a status without that field), and no timer is
\* left once the component is unmounted.
C1_TimerIffActive ==
    /\ mounted => ((timers > 0) <=> (StatusOf(status) \in Active))
    /\ ~mounted => timers = 0

\* a poll brought the status from an active one to 'completed' and the
\* timer that issued the poll is gone
C1_Witness ==
    /\ mounted
    /\ last.op = "fetchStatus"
    /\ last.kind = "ok"
    /\ StatusOf(status) = "completed"
    /\ timers = 0

IntoCompleted == StatusOf(status) # "completed" /\ StatusOf(status') = "completed"
FetchIssued == resultsReqs' = resultsReqs + 1 /\ tradesReqs' = tradesReqs + 1
NoFetchIssued == resultsReqs' <= resultsReqs /\ tradesReqs' <= tradesReqs

\* C2 as stated: every change of status.status into 'completed' issues
\* exactly one results request and one trade-history request, and no other
\* step issues one.
C2_FetchPerCompletion ==
    [][IF IntoCompleted THEN FetchIssued ELSE NoFetchIssued]_vars

\* C2: a change of status.status into 'completed' issues exactly one results
\* request and one trade-history request when results is null at that
\* moment and none when results is loaded; no other step issues one.
C2_FetchPerCompletionIfNoResults ==
    [][IF IntoCompleted /\ results = NULL THEN FetchIssued ELSE NoFetchIssued]_vars

\* the status just turned 'completed' with no results loaded and the two
\* requests are on their way
C2_Witness ==
    /\ last.op = "fetchStatus"
    /\ StatusOf(status) = "completed"
    /\ results = NULL
    /\ resultsReqs = 1
    /\ tradesReqs = 1

(***************************************************************************)
(* Properties of the handlers' error paths.                                *)
(***************************************************************************)
\* C3: after resetBacktest's request has settled, whatever the outcome,
\* status, portfolio and results are null and tradeHistory is empty.
C3_ResetAlwaysClears ==
    last.op = "resetSettle" =>
        /\ status = NULL
        /\ portfolio = NULL
        /\ results = NULL
        /\ tradeHistory = <<>>

\* C4: a status request that is rejected or answered with a non-OK response
\* leaves status as it was.
C4_StatusKeptOnFailure ==
    [][(/\ last'.op \in {"fetchStatus", "startStatus"}
        /\ last'.kind \in {"reject", "nonok", "nonokbad"})
       => status' = status]_vars

\* C5: fetchPortfolio, fetchResults and fetchTradeHistory replace their own
\* piece of state by the body of an OK response and leave it unchanged on a
\* rejected request, an unparsable body or a non-OK response; they never
\* change any other piece of local state.
C5_FetchesBestEffort ==
    [][/\ last'.op = "fetchPortfolio" =>
            /\ portfolio' = (IF last'.kind = "ok" THEN last'.body ELSE portfolio)
            /\ UNCHANGED <<status, results, tradeHistory, isLoading>>
       /\ last'.op = "fetchResults" =>
            /\ results' = (IF last'.kind = "ok" THEN last'.body ELSE results)
            /\ UNCHANGED <<status, portfolio, tradeHistory, isLoading>>
       /\ last'.op = "fetchTradeHistory" =>
            /\ tradeHistory' = (IF last'.kind = "ok" THEN last'.body.list ELSE tradeHistory)
            /\ UNCHANGED <<status, portfolio, results, isLoading>>]_vars

\* a portfolio snapshot is loaded and the poll after it got a non-OK answer
C5_Witness ==
    /\ last.op = "fetchPortfolio"
    /\ last.kind = "nonok"
    /\ portfolio \in PortfolioBodies

(***************************************************************************)
(* Properties of startBacktest.                                            *)
(***************************************************************************)
\* C6: startBacktest sets results and portfolio to null in the step that
\* issues the POST; an OK answer to the POST makes it issue exactly one
\* status request, whose OK response becomes the local status; a non-OK
\* answer or a failure of the POST issues no status request.
C6_StartThenStatus ==
    [][/\ last'.op = "startBacktest" =>
            /\ results' = NULL
            /\ portfolio' = NULL
            /\ postReqs' = postReqs + 1
            /\ UNCHANGED <<startStatusReqs, statusReqs>>
       /\ last'.op = "startPost" =>
            /\ postReqs' = postReqs - 1
            /\ startStatusReqs' =
                   startStatusReqs + (IF last'.kind \in {"ok", "okbad"} THEN 1 ELSE 0)
            /\ UNCHANGED <<statusReqs, status>>
       /\ last'.op = "startStatus" =>
            /\ startStatusReqs' = startStatusReqs - 1
            /\ last'.kind = "ok" => status' = last'.body
            /\ UNCHANGED <<postReqs, statusReqs>>]_vars

\* the status request following an accepted start came back and is shown
C6_Witness ==
    /\ last.op = "startStatus"
    /\ last.kind = "ok"
    /\ status = [status |-> "initializing"]
    /\ results = NULL
    /\ portfolio = NULL

\* C7: a non-OK answer to the start POST with a {detail} body raises the
\* alert made of that detail and leaves status unchanged; a rejected POST or
\* an unparsable error body raises the generic alert; no other step of any
\* handler raises an alert.
C7_AlertsOnlyFromStart ==
    [][/\ (last'.op = "startPost" /\ last'.kind = "nonok") =>
            /\ alertMsg' = DetailAlert(last'.body.detail)
            /\ status' = status
       /\ (last'.op = "startPost" /\ last'.kind \in {"reject", "nonokbad"}) =>
            alertMsg' = GenericAlert
       /\ (last'.op = "startPost" /\ last'.kind \in {"ok", "okbad"}) =>
            alertMsg' = NoAlert
       /\ last'.op # "startPost" => alertMsg' = NoAlert]_vars

\* the backend refused the start and its message is on screen
C7_Witness ==
    /\ last.op = "startPost"
    /\ last.kind = "nonok"
    /\ alertMsg = DetailAlert("no data")

StartInProgress == postReqs + startStatusReqs > 0 \/ alertMsg # NoAlert

\* C8: isLoading is true exactly while a startBacktest call is between its
\* first line and its finally clause (POST pending, follow-up status fetch
\* pending, or alert on screen), and, as long as the component stays
\* mounted, a true isLoading always becomes false again.
C8_LoadingUntilSettled ==
    /\ [](isLoading <=> StartInProgress)
    /\ (isLoading ~> (~isLoading \/ ~mounted))

\* a failed start has run to its end and the start button is usable again
C8_Witness ==
    /\ last.op = "dismissAlert"
    /\ ~isLoading
    /\ ~StartInProgress

(***************************************************************************)
(* Properties of overlapping polls.                                        *)
(***************************************************************************)
\* C9: a tick adds a status request without removing any outstanding one;
\* settling one poll request removes that request alone (followed, for a
\* status request, by the tick's portfolio request); no other step of the
\* mounted component removes a poll request; and an OK response is stored
\* whenever it arrives, also when a request issued after it has already
\* been answered.
C9_PollsOverlapLastWins ==
    [][/\ last'.op = "tick" =>
            /\ statusReqs' = Append(statusReqs, FALSE)
            /\ portfolioReqs' = portfolioReqs
       /\ last'.op = "fetchStatus" =>
            /\ Len(statusReqs') = Len(statusReqs) - 1
            /\ Len(portfolioReqs') = Len(portfolioReqs) + 1
            /\ last'.kind = "ok" => status' = last'.body
       /\ last'.op = "fetchPortfolio" =>
            /\ Len(portfolioReqs') = Len(portfolioReqs) - 1
            /\ statusReqs' = statusReqs
            /\ last'.kind = "ok" => portfolio' = last'.body
       /\ last'.op \notin {"tick", "fetchStatus", "fetchPortfolio", "unmount"} =>
            UNCHANGED <<statusReqs, portfolioReqs>>]_vars

\* the answer to an earlier status request arrived after the answer to a
\* later one and is the status now shown
C9_Witness ==
    /\ last.op = "fetchStatus"
    /\ last.kind = "ok"
    /\ last.stale
    /\ status = last.body

\* the handler a step belongs to
HandlerOf(op) ==
    CASE op = "startPost" -> "startBacktest"
      [] op = "startStatus" -> "fetchStatus"
      [] op = "resetSettle" -> "resetBacktest"
      [] OTHER -> op

\* the step taken last raised an exception inside its handler
Failed(step) == Throws(HandlerOf(step.op), step)

\* C10: no exception escapes a handler; a rejected request or a parse error
\* in fetchStatus, fetchPortfolio, fetchResults, fetchTradeHistory or
\* resetBacktest changes neither the availability of the start button nor
\* raises an alert, and a startBacktest call that failed ends with
\* isLoading false, the alert closed and the start button available unless
\* a run is observed.
C10_FailuresNotFatal ==
    [][/\ ~unhandled'
       /\ (Failed(last') /\ last'.op \in {"fetchStatus", "fetchPortfolio",
               "fetchResults", "fetchTradeHistory", "resetSettle"}) =>
            /\ StartDisabled(isLoading', status') = StartDisabled(isLoading, status)
            /\ Running'
       /\ (Failed(last') /\ last'.op = "startStatus") =>
            /\ Running'
            /\ StartDisabled(isLoading', status') = (StatusOf(status) \in Active)
       /\ last'.op = "dismissAlert" =>
            /\ Running'
            /\ StartDisabled(isLoading', status') = (StatusOf(status) \in Active)]_vars

\* the DELETE of a reset was rejected while a start was in progress, and
\* nothing escaped
C10_Witness ==
    /\ last.op = "resetSettle"
    /\ last.kind = "reject"
    /\ isLoading
    /\ ~unhandled

(***************************************************************************)
(* Claims about what is rendered, checked under RenderSpec.                *)
(***************************************************************************)
Shown == rendered # NotRendered

\* C11: for the five known status values the badge shows the fixed label
\* and colour of the two lookups (idle, initializing, running, completed,
\* error give the five Korean labels and #9E9E9E, #FF9800, #4CAF50,
\* #2196F3, #F44336); for any other string the label is the string itself
\* and the colour the default #9E9E9E.
C11_StatusLookups ==
    (Shown /\ status # NULL /\ "status" \in DOMAIN status) =>
        LET s == status.status
            badge == rendered.badge[1]
        IN  /\ s = "idle" =>
                badge = [text |-> "daegi jung", color |-> "#9E9E9E"]
            /\ s = "initializing" =>
                badge = [text |-> "chogihwa jung", color |-> "#FF9800"]
            /\ s = "running" =>
                badge = [text |-> "silhaeng jung", color |-> "#4CAF50"]
            /\ s = "completed" =>
                badge = [text |-> "wanryo", color |-> "#2196F3"]
            /\ s = "error" =>
                badge = [text |-> "oryu", color |-> "#F44336"]
            /\ s \notin StatusValues =>
                badge = [text |-> s, color |-> "#9E9E9E"]

\* a status the backend does not report is shown as it is, in grey
C11_Witness ==
    /\ Shown
    /\ StatusOf(status) = "paused"
    /\ rendered.badge = Some([text |-> "paused", color |-> "#9E9E9E"])

\* the trade shown in row i of the table that Shown states display
TradeOfRow(i) == tradeHistory[Len(tradeHistory) + 1 - i]

RECURSIVE Pow10(_)
Pow10(k) == IF k = 0 THEN 1 ELSE 10 * Pow10(k - 1)
\* the decimal digit of d at 10^k, and the number of decimal digits of d
DecDigit(d, k) == DigitChar((d \div Pow10(k)) % 10)
NumDigits(d) == CHOOSE n \in 1..9 : d < Pow10(n) /\ (n = 1 \/ d >= Pow10(n - 1))

\* C12: a date of exactly 8 decimal digits YYYYMMDD is shown as
\* YYYY-MM-DD and a date of any other length as its digits; a time slot
\* HHMM_HHMM is shown as HH:MM-HH:MM, and a missing or null time slot
\* shows no time.
C12_DateAndTime ==
    Shown =>
        \A i \in 1..Len(rendered.rows) :
            LET t == TradeOfRow(i)
                row == rendered.rows[i]
                D(k) == DecDigit(t.date, k)
                n == NumDigits(t.date)
            IN  /\ n = 8 =>
                    row.date = <<D(7), D(6), D(5), D(4), "-", D(3), D(2),
                                 "-", D(1), D(0)>>
                /\ n # 8 =>
                    row.date = [j \in 1..n |-> D(n - j)]
                /\ (t.time_slot # None /\ Len(t.time_slot[1]) = 9) =>
                    LET ts == t.time_slot[1]
                    IN  row.time = <<ts[1], ts[2], ":", ts[3], ts[4], "-",
                                     ts[6], ts[7], ":", ts[8], ts[9]>>
                /\ t.time_slot = None => row.time = <<>>

\* the trade of 2024-01-04, 09:00-09:10, is shown with that date and time
C12_Witness ==
    /\ Shown
    /\ Len(tradeHistory) = 1
    /\ tradeHistory[1].date = 20240104
    /\ tradeHistory[1].time_slot # None
    /\ rendered.rows[1].date
         = <<"2", "0", "2", "4", "-", "0", "1", "-", "0", "4">>
    /\ rendered.rows[1].time
         = <<"0", "9", ":", "0", "0", "-", "0", "9", ":", "1", "0">>

\* C13: a BUY row never shows a profit or loss: whatever profit_loss and
\* profit_loss_percent are, its profit/loss cell is "-", its badge is the
\* buy badge, its buy-price column is the formatted price followed by the
\* currency suffix and its sell-price column is "-".
C13_BuyRowShowsNoProfitLoss ==
    Shown =>
        \A i \in 1..Len(rendered.rows) :
            TradeOfRow(i).action = "BUY" =>
                /\ rendered.rows[i].pnl = << <<"-">> >>
                /\ rendered.rows[i].badge = "maesu"
                /\ rendered.rows[i].buyPrice
                     = formatNumber(Some(TradeOfRow(i).price)) \o <<"won">>
                /\ rendered.rows[i].sellPrice = <<"-">>

\* a BUY trade at 1000 that carries a profit_loss of -500 is shown with a
\* buy price of "1,000" and no profit or loss
C13_Witness ==
    /\ Shown
    /\ Len(tradeHistory) = 1
    /\ tradeHistory[1].action = "BUY"
    /\ tradeHistory[1].profit_loss = Some(-500)
    /\ tradeHistory[1].profit_loss_percent = Some(-500)
    /\ rendered.rows[1].buyPrice = <<"1", ",", "0", "0", "0", "won">>
    /\ rendered.rows[1].pnl = << <<"-">> >>

DigitChars == {DigitChar(d) : d \in 0..9}

\* s is a percentage with two decimals in parentheses, such as (-5.00%)
IsPercentage(s) ==
    /\ Len(s) >= 7
    /\ s[1] = "("
    /\ s[Len(s) - 5] \in DigitChars
    /\ s[Len(s) - 4] = "."
    /\ s[Len(s) - 3] \in DigitChars
    /\ s[Len(s) - 2] \in DigitChars
    /\ s[Len(s) - 1] = "%"
    /\ s[Len(s)] = ")"

\* C14: a SELL row with a negative profit_loss is shown in red, the amount
\* without a "+" and followed by the currency suffix, then the percentage
\* in parentheses with two decimals.
C14_SellLossShown ==
    Shown =>
        \A i \in 1..Len(rendered.rows) :
            (/\ TradeOfRow(i).action = "SELL"
             /\ TradeOfRow(i).profit_loss # None
             /\ TradeOfRow(i).profit_loss[1] < 0) =>
                /\ rendered.rows[i].pnlColor = "#F44336"
                /\ Len(rendered.rows[i].pnl) = 2
                /\ rendered.rows[i].pnl[1]
                     = toLocaleString(TradeOfRow(i).profit_loss[1]) \o <<"won">>
                /\ rendered.rows[i].pnl[1][1] = "-"
                /\ IsPercentage(rendered.rows[i].pnl[2])

\* C15: the table shows the list in exactly reversed order -- row i is
\* the trade n + 1 - i of the n stored, counting from 1 -- and rendering
\* neither reorders nor changes the stored tradeHistory.
C15_ShownReversedStoredKept ==
    [][last'.op = "render" =>
        /\ tradeHistory' = tradeHistory
        /\ Len(rendered'.rows) = Len(tradeHistory)
        /\ \A i \in 1..Len(tradeHistory) :
              rendered'.rows[i]
                = TradeRow(tradeHistory[Len(tradeHistory) + 1 - i])]_vars

\* three trades stored in the order 005930, 000660, 035420 are shown in the
\* order 035420, 000660, 005930 and still stored in the first order
C15_Witness ==
    /\ Shown
    /\ Len(tradeHistory) = 3
    /\ tradeHistory[1].symbol = "005930"
    /\ tradeHistory[2].symbol = "000660"
    /\ tradeHistory[3].symbol = "035420"
    /\ rendered.rows[1].symbol = "035420"
    /\ rendered.rows[2].symbol = "000660"
    /\ rendered.rows[3].symbol = "005930"

(***************************************************************************)
(* Claims about the handlers, checked under Spec.                          *)
(***************************************************************************)
\* C16: the start button is enabled only while isLoading is false and the
\* status is neither running nor initializing; so a start POST is issued
\* only in such a state, none is issued while an active run is observed,
\* and at most one start POST is in flight at a time.
C16_StartGuarded ==
    [][/\ postReqs' <= 1
       /\ (postReqs' > postReqs \/ last'.op = "startBacktest") =>
            /\ ~isLoading
            /\ StatusOf(status) \notin Active
            /\ postReqs = 0
            /\ postReqs' = 1]_vars

\* a new run is started from the completed one, while a request of the old
\* run's polling is still in flight
C16_Witness ==
    /\ last.op = "startBacktest"
    /\ postReqs = 1
    /\ isLoading
    /\ StatusOf(status) = "completed"
    /\ Len(portfolioReqs) > 0

RequestIssued == resultsReqs' > resultsReqs \/ tradesReqs' > tradesReqs

\* C17: a results or trade-history request is issued only by a step that
\* leaves status.status = 'completed' with results null -- a status
\* response being stored -- and so never while the status is null, idle,
\* initializing, running or error, nor by a tick of the timer, by the
\* click or the POST of startBacktest, or by resetBacktest.
C17_FetchOnlyWhenCompleted ==
    [][RequestIssued =>
        /\ StatusOf(status') = "completed"
        /\ results' = NULL
        /\ results = NULL
        /\ last'.op \in {"fetchStatus", "startStatus"}
        /\ last'.kind = "ok"
        /\ last'.body = status']_vars

\* the status request of startBacktest found the run completed and the two
\* requests went out
C17_Witness ==
    /\ last.op = "startStatus"
    /\ StatusOf(status) = "completed"
    /\ results = NULL
    /\ resultsReqs > 0
    /\ tradesReqs > 0

\* C18: within a tick the status request is issued first and alone, and the
\* tick's portfolio request is issued only when that status request has
\* settled -- also when it failed.
C18_StatusThenPortfolio ==
    [][/\ last'.op = "tick" =>
            /\ Len(statusReqs') = Len(statusReqs) + 1
            /\ portfolioReqs' = portfolioReqs
       /\ Len(portfolioReqs') > Len(portfolioReqs) =>
            /\ last'.op = "fetchStatus"
            /\ Len(statusReqs') = Len(statusReqs) - 1
       /\ last'.op = "fetchStatus" =>
            /\ Len(statusReqs') = Len(statusReqs) - 1
            /\ Len(portfolioReqs') = Len(portfolioReqs) + 1]_vars

\* the status request of a tick was rejected and the tick's portfolio
\* request is in flight
C18_Witness ==
    /\ last.op = "fetchStatus"
    /\ last.kind = "reject"
    /\ Len(statusReqs) = 0
    /\ Len(portfolioReqs) = 1

\* C19, for the step that follows the clearing: once resetBacktest has
\* cleared the local state and no startBacktest call is in progress, a step
\* other than a click on start -- so the response to a request issued
\* before the reset -- leaves status and portfolio null and no timer alive.
C19_ResetSticks ==
    [][(/\ last.op = "resetSettle"
        /\ ~Failed(last)
        /\ ~isLoading
        /\ last'.op \in {"fetchStatus", "fetchPortfolio", "fetchResults",
                         "fetchTradeHistory"}) =>
            /\ status' = NULL
            /\ portfolio' = NULL
            /\ timers' = 0]_vars

\* C20, for the step that follows the click: once startBacktest has cleared
\* results and portfolio, the response to a results or portfolio request
\* still in flight -- issued before the start, for the previous run -- is
\* not stored.
C20_StartDropsOldResponses ==
    [][(/\ last.op = "startBacktest"
        /\ last'.op \in {"fetchResults", "fetchPortfolio"}) =>
            /\ results' = NULL
            /\ portfolio' = NULL]_vars

(***************************************************************************)
(* Claims about the loading of results and trades.                         *)
(***************************************************************************)
ResultsMissing == mounted /\ StatusOf(status) = "completed" /\ results = NULL

\* C21: whenever status.status is 'completed' and results is null, a
\* results request is in flight or is eventually issued, for as long as
\* that situation lasts -- also after a start from a completed run and
\* after a failed results fetch.
C21_ResultsEventuallyRequested ==
    ResultsMissing ~> (resultsReqs > 0 \/ ~ResultsMissing)

\* C22: no step of startBacktest modifies tradeHistory; it changes only
\* when a trades fetch resolves OK, to the list of the response, and when
\* resetBacktest reaches its clearing step, to the empty list (and when the
\* component, and its state with it, is unmounted).  So the trades of a run
\* stay stored during the next run.
C22_TradeHistoryFrame ==
    [][/\ last'.op \in {"startBacktest", "startPost", "startStatus",
                        "dismissAlert"} => tradeHistory' = tradeHistory
       /\ tradeHistory' # tradeHistory =>
            \/ /\ last'.op = "fetchTradeHistory"
               /\ last'.kind = "ok"
               /\ tradeHistory' = last'.body.list
            \/ /\ last'.op = "resetSettle"
               /\ ~Failed(last')
               /\ tradeHistory' = <<>>
            \/ last'.op = "unmount"]_vars

\* the trades of the previous run are still stored while the status
\* request of a new start reports the new run as running
C22_Witness ==
    /\ last.op = "startStatus"
    /\ StatusOf(status) = "running"
    /\ tradeHistory = <<Trade1, Trade2>>

(***************************************************************************)
(* Claims about the timer.                                                 *)
(***************************************************************************)
\* C23: at most one polling timer exists at any time; when status.status
\* changes from one of 'initializing' and 'running' to the other, the one
\* timer there was is cleared and one new timer is created.
C23_AtMostOneTimer ==
    /\ timers <= 1
    /\ [][/\ timers' <= 1
          /\ (/\ StatusOf(status) \in Active
              /\ StatusOf(status') \in Active
              /\ StatusOf(status') # StatusOf(status)) =>
                /\ timers = 1
                /\ interval
                /\ timers' = 1
                /\ interval']_vars

\* two ticks have their status requests in flight and a response of an
\* earlier tick has just been stored: there is one timer
C23_Witness ==
    /\ last.op = "fetchStatus"
    /\ last.kind = "ok"
    /\ StatusOf(status) = "running"
    /\ Len(statusReqs) = 2
    /\ timers = 1

(***************************************************************************)
(* Claims about the profit/loss cell, checked under RenderSpec.            *)
(***************************************************************************)
\* C24: in every SELL row with a non-null profit_loss the sign prefix and
\* the colour agree: the cell is green exactly when the amount carries the
\* "+" prefix, that is exactly when profit_loss >= 0, 0 included, and red
\* exactly when profit_loss < 0.
C24_SignAndColourAgree ==
    Shown =>
        \A i \in 1..Len(rendered.rows) :
            (/\ TradeOfRow(i).action = "SELL"
             /\ TradeOfRow(i).profit_loss # None) =>
                /\ (rendered.rows[i].pnlColor = "#4CAF50")
                     <=> (rendered.rows[i].pnl[1][1] = "+")
                /\ (rendered.rows[i].pnlColor = "#4CAF50")
                     <=> (TradeOfRow(i).profit_loss[1] >= 0)
                /\ (rendered.rows[i].pnlColor = "#F44336")
                     <=> (TradeOfRow(i).profit_loss[1] < 0)

====
